---- MODULE Spec2Model ----
(***************************************************************************)
(* A model of convert.py: convert_pdf_to_pptx(pdf_path, pptx_path,         *)
(* editable), the PDF -> presentation converter.  One run of the function  *)
(* is a sequential state machine; every external call (file system, PDF   *)
(* decoder, presentation library) either succeeds or raises, which the     *)
(* model draws nondeterministically.                                       *)
(*                                                                         *)
(* Lengths.  PDF coordinates are point values (floats in the code).  The   *)
(* model writes a coordinate as an integer number of 1/PtDen points, so    *)
(* that int(points * 12700) truncates for real.  Pixel sizes and slide     *)
(* sizes are integers.  The raster fit is computed in IEEE-754 double      *)
(* precision, as Python computes it: a double is a 53-bit mantissa and    *)
(* the exponent of its last bit.                                           *)
(***************************************************************************)
EXTENDS Integers, Sequences, FiniteSets, TLC

\* ------------------------------------------------------------ bounds
MaxPages == 2
MaxPix == 13
MaxLines == 2
MaxSpans == 2
PtDen == 8

\* ------------------------------------------------- program constants
EMU_PER_PT == 12700
DefaultSlideWidth == 9144000
DefaultSlideHeight == 6858000
MantissaBits == 53
LimbBits == 14
LimbBase == 2 ^ LimbBits

\* ------------------------------------------------------- integers
\* int(x / d) for integers x, d > 0: Python's int() truncates toward zero.
TruncDiv(x, d) == IF x >= 0 THEN x \div d ELSE -((-x) \div d)

\* pptx.util.Pt(points) = int(points * 12700), points = x / PtDen.
Pt(x) == TruncDiv(x * EMU_PER_PT, PtDen)

\* int(points), points = x / PtDen (the temporary file's name, line 93).
IntPt(x) == TruncDiv(x, PtDen)

\* ------------------------------------------- arbitrary-size naturals
\* A natural as its digits in base LimbBase, least significant first, the
\* last digit not 0 (zero is <<>>): the model's integers are 32 bits wide,
\* a double's mantissa is 53.
Norm(x) ==
  LET nz == {k \in 1..Len(x) : x[k] # 0}
  IN  IF nz = {} THEN <<>>
      ELSE SubSeq(x, 1, CHOOSE k \in nz : \A j \in nz : j <= k)

RECURSIVE FromNat(_)
FromNat(n) ==
  IF n = 0 THEN <<>> ELSE <<n % LimbBase>> \o FromNat(n \div LimbBase)

RECURSIVE ToNat(_)
ToNat(x) == IF x = <<>> THEN 0 ELSE x[1] + LimbBase * ToNat(Tail(x))

Limb(x, k) == IF k <= Len(x) THEN x[k] ELSE 0

RECURSIVE AddFrom(_, _, _, _)
AddFrom(x, y, k, carry) ==
  IF k > Len(x) /\ k > Len(y)
  THEN IF carry = 0 THEN <<>> ELSE <<carry>>
  ELSE LET t == Limb(x, k) + Limb(y, k) + carry
       IN  <<t % LimbBase>> \o AddFrom(x, y, k + 1, t \div LimbBase)

BigAdd(x, y) == AddFrom(x, y, 1, 0)

\* x - y for x >= y.
RECURSIVE SubFrom(_, _, _, _)
SubFrom(x, y, k, borrow) ==
  IF k > Len(x) THEN <<>>
  ELSE LET t == x[k] - Limb(y, k) - borrow
       IN  <<IF t < 0 THEN t + LimbBase ELSE t>>
             \o SubFrom(x, y, k + 1, IF t < 0 THEN 1 ELSE 0)

BigSub(x, y) == Norm(SubFrom(x, y, 1, 0))

BigGeq(x, y) ==
  IF Len(x) # Len(y) THEN Len(x) > Len(y)
  ELSE LET d == {k \in 1..Len(x) : x[k] # y[k]}
       IN  d = {} \/ LET top == CHOOSE k \in d : \A j \in d : j <= k
                     IN  x[top] > y[top]

\* x * d for one digit d.
RECURSIVE MulLimbFrom(_, _, _, _)
MulLimbFrom(x, d, k, carry) ==
  IF k > Len(x) THEN (IF carry = 0 THEN <<>> ELSE <<carry>>)
  ELSE LET t == x[k] * d + carry
       IN  <<t % LimbBase>> \o MulLimbFrom(x, d, k + 1, t \div LimbBase)

MulLimb(x, d) == Norm(MulLimbFrom(x, d, 1, 0))

RECURSIVE BigMul(_, _)
BigMul(x, y) ==
  IF y = <<>> \/ x = <<>> THEN <<>>
  ELSE LET rest == BigMul(x, Tail(y))
       IN  BigAdd(MulLimb(x, y[1]),
                  IF rest = <<>> THEN <<>> ELSE <<0>> \o rest)

\* The number of binary digits of x.
RECURSIVE SmallBits(_)
SmallBits(n) == IF n = 0 THEN 0 ELSE 1 + SmallBits(n \div 2)

BitLen(x) ==
  IF x = <<>> THEN 0 ELSE LimbBits * (Len(x) - 1) + SmallBits(x[Len(x)])

\* x * 2^s.
ShiftLeft(x, s) ==
  IF x = <<>> THEN <<>>
  ELSE [k \in 1..(s \div LimbBits) |-> 0] \o MulLimb(x, 2 ^ (s % LimbBits))

\* x \div 2^s.
ShiftRight(x, s) ==
  LET q == s \div LimbBits
      r == s % LimbBits
      y == IF q >= Len(x) THEN <<>> ELSE SubSeq(x, q + 1, Len(x))
  IN  Norm([k \in 1..Len(y) |->
              (y[k] \div (2 ^ r))
                + (Limb(y, k + 1) % (2 ^ r)) * (2 ^ (LimbBits - r))])

\* x % 2^s # 0.
LowBitsSet(x, s) ==
  LET q == s \div LimbBits
      r == s % LimbBits
  IN  \/ \E k \in 1..q : Limb(x, k) # 0
      \/ Limb(x, q + 1) % (2 ^ r) # 0

\* Binary digit k of x (digit 0 is the last).
BitAt(x, k) == (Limb(x, k \div LimbBits + 1) \div (2 ^ (k % LimbBits))) % 2

\* ------------------------------------------------ IEEE-754 doubles
\* A positive double is [m |-> a natural of exactly MantissaBits binary
\* digits, e |-> the exponent of its last digit], of value m * 2^e.  Zero is
\* [m |-> <<>>, e |-> 0].
\* The double nearest to x * 2^e (plus something below x's last digit when
\* sticky): round to nearest, ties to even.
RoundBig(x, e, sticky) ==
  LET n == BitLen(x) IN
  IF n = 0 THEN [m |-> <<>>, e |-> 0]
  ELSE IF n <= MantissaBits
  THEN [m |-> ShiftLeft(x, MantissaBits - n), e |-> e - (MantissaBits - n)]
  ELSE LET s == n - MantissaBits
           m0 == ShiftRight(x, s)
           guard == BitAt(x, s - 1)
           rest == sticky \/ LowBitsSet(x, s - 1)
           up == guard = 1 /\ (rest \/ BitAt(m0, 0) = 1)
           m1 == IF up THEN BigAdd(m0, <<1>>) ELSE m0
       IN  IF BitLen(m1) > MantissaBits
           THEN [m |-> ShiftRight(m1, 1), e |-> e + s + 1]
           ELSE [m |-> m1, e |-> e + s]

\* float(n) for an integer 0 <= n < 2^31: exact.
FromInt(n) == RoundBig(FromNat(n), 0, FALSE)

\* One step of binary long division by den: the next quotient digit.
DivStep(s, den) ==
  LET r2 == BigAdd(s.r, s.r)
      one == BigGeq(r2, den)
  IN  [q |-> BigAdd(BigAdd(s.q, s.q), IF one THEN <<1>> ELSE <<>>),
       r |-> IF one THEN BigSub(r2, den) ELSE r2]

\* n steps of it.  Once nothing is left of the division the remaining
\* digits are 0.
RECURSIVE DivSteps(_, _, _)
DivSteps(s, den, n) ==
  IF s.r = <<>> THEN [q |-> ShiftLeft(s.q, n), r |-> <<>>]
  ELSE IF n = 0 THEN s
  ELSE IF n = 1 THEN DivStep(s, den)
  ELSE DivSteps(DivSteps(s, den, n \div 2), den, n - (n \div 2))

\* a / b for doubles a, b > 0: the mantissas' quotient to MantissaBits + 1
\* binary places, what is left of the division being the sticky part.
FDiv(a, b) ==
  LET one == BigGeq(a.m, b.m)
      s0 == [q |-> IF one THEN <<1>> ELSE <<>>,
             r |-> IF one THEN BigSub(a.m, b.m) ELSE a.m]
      s == DivSteps(s0, b.m, MantissaBits + 1)
  IN  RoundBig(s.q, a.e - b.e - (MantissaBits + 1), s.r # <<>>)

\* a * b for doubles a, b > 0.
FMul(a, b) == RoundBig(BigMul(a.m, b.m), a.e + b.e, FALSE)

\* a > b for doubles a, b > 0.
FGreater(a, b) ==
  IF a.e # b.e THEN a.e > b.e ELSE a.m # b.m /\ BigGeq(a.m, b.m)

\* int(a) for a double 0 <= a < 2^31.
FInt(a) ==
  IF a.m = <<>> THEN 0
  ELSE IF a.e >= 0 THEN ToNat(ShiftLeft(a.m, a.e))
  ELSE ToNat(ShiftRight(a.m, -a.e))

\* ---------------------------------------------------------- text
SP == " "
NL == "\n"
IsSpace(c) == c \in {SP, NL}

RECURSIVE LStrip(_)
LStrip(s) ==
  IF s = <<>> THEN <<>>
  ELSE IF IsSpace(s[1]) THEN LStrip(Tail(s)) ELSE s

RECURSIVE RStrip(_)
RStrip(s) ==
  IF s = <<>> THEN <<>>
  ELSE IF IsSpace(s[Len(s)]) THEN RStrip(SubSeq(s, 1, Len(s) - 1)) ELSE s

\* str.strip(): leading and trailing whitespace removed.
Strip(s) == RStrip(LStrip(s))

\* Lines 70-71: for span in line["spans"]: text_content += span["text"] + " "
RECURSIVE SpansText(_)
SpansText(spans) ==
  IF spans = <<>> THEN <<>>
  ELSE spans[1].text \o <<SP>> \o SpansText(Tail(spans))

\* Lines 68-72: the text accumulated over the block's lines, each line
\* followed by "\n".
RECURSIVE LinesText(_)
LinesText(lines) ==
  IF lines = <<>> THEN <<>>
  ELSE SpansText(lines[1].spans) \o <<NL>> \o LinesText(Tail(lines))

\* Line 78: tf.text = text_content.strip()
BlockText(block) == Strip(LinesText(block.lines))

\* The paragraphs of a text frame whose text was set: one per "\n" plus one.
NumParagraphs(text) == 1 + Cardinality({k \in 1..Len(text) : text[k] = NL})

FontsAll(block, text) ==
  IF block.lines = <<>> \/ block.lines[1].spans = <<>>
  THEN [k \in 1..NumParagraphs(text) |-> {}]
  ELSE [k \in 1..NumParagraphs(text) |-> {Pt(block.lines[1].spans[1].size)}]
\* Lines 82-87: the font size of each paragraph, {} where none is set.
\* block["lines"][0]["spans"][0] raises for a block with no line or a first
\* line with no span, and the bare except swallows it.
Fonts(block, text) ==
  IF block.lines = <<>> \/ block.lines[1].spans = <<>>
  THEN [k \in 1..NumParagraphs(text) |-> {}]
  ELSE [k \in 1..NumParagraphs(text) |->
          IF k = 1 THEN {Pt(block.lines[1].spans[1].size)} ELSE {}]

\* ------------------------------------------------------- elements
\* Lines 61-64, 76-87: the text box of a text block.
TextBox(block, b) ==
  LET text == BlockText(block) IN
  [kind |-> "textbox", block |-> b,
   left |-> Pt(block.bbox[1]), top |-> Pt(block.bbox[2]),
   width |-> Pt(block.bbox[3] - block.bbox[1]),
   height |-> Pt(block.bbox[4] - block.bbox[2]),
   text |-> text, fonts |-> Fonts(block, text), image |-> <<>>]

\* Lines 61-64, 98: the picture of an image block, read from the file.
Picture(block, b, image) ==
  [kind |-> "picture", block |-> b,
   left |-> Pt(block.bbox[1]), top |-> Pt(block.bbox[2]),
   width |-> Pt(block.bbox[3] - block.bbox[1]),
   height |-> Pt(block.bbox[4] - block.bbox[2]),
   text |-> <<>>, fonts |-> <<>>, image |-> image]

FitImageNoCentre(w, h, W, H) ==
  LET img_ratio == FDiv(FromInt(w), FromInt(h))
      slide_ratio == FDiv(FromInt(W), FromInt(H))
  IN  IF FGreater(img_ratio, slide_ratio)
      THEN LET new_height == FInt(FDiv(FromInt(W), img_ratio))
           IN  [left |-> 0, top |-> H - new_height,
                width |-> W, height |-> new_height, given |-> "width"]
      ELSE LET new_width == FInt(FMul(FromInt(H), img_ratio))
           IN  [left |-> W - new_width, top |-> 0,
                width |-> new_width, height |-> H, given |-> "height"]
\* Lines 115-133: the place of a w x h pixel image on a W x H slide.  Python
\* computes both ratios and the scaled side in doubles; the slide's sides
\* minus the scaled side, halved, is exact in doubles.  given names the
\* side handed to add_picture, which derives the other one.
FitImage(w, h, W, H) ==
  LET img_ratio == FDiv(FromInt(w), FromInt(h))
      slide_ratio == FDiv(FromInt(W), FromInt(H))
  IN  IF FGreater(img_ratio, slide_ratio)
      THEN LET new_height == FInt(FDiv(FromInt(W), img_ratio))
           IN  [left |-> 0, top |-> TruncDiv(H - new_height, 2),
                width |-> W, height |-> new_height, given |-> "width"]
      ELSE LET new_width == FInt(FMul(FromInt(H), img_ratio))
           IN  [left |-> TruncDiv(W - new_width, 2), top |-> 0,
                width |-> new_width, height |-> H, given |-> "height"]

\* Lines 115-133: the picture of a rendered page.
PagePicture(pix, W, H, image) ==
  LET f == FitImage(pix.width, pix.height, W, H) IN
  [kind |-> "picture", block |-> 0,
   left |-> f.left, top |-> f.top, width |-> f.width, height |-> f.height,
   text |-> <<>>, fonts |-> <<>>, image |-> image]

\* -------------------------------------------------- the file system
\* Line 93: f"temp_img_{i}_{int(b_x0)}_{int(b_y0)}.{ext}"
TempImgName(page, block) ==
  <<"temp_img", page, IntPt(block.bbox[1]), IntPt(block.bbox[2]), block.ext>>

\* Line 111: f"temp_page_{i}.png"
TempPageName(page) == <<"temp_page", page, 0, 0, "png">>

\* A file is [name, by]: by = <<page, block>> names whose bytes it holds
\* (block 0: the page's rendering).  Writing replaces the file of that name.
WriteFile(fs, name, by) ==
  {f \in fs : f.name # name} \cup {[name |-> name, by |-> by]}

RemoveNothing(fs, name) == fs
\* Lines 99, 136: os.remove(name)
RemoveFile(fs, name) == {f \in fs : f.name # name}

FileBy(fs, name) == (CHOOSE f \in fs : f.name = name).by

\* --------------------------------------------------- presentation
AddSlideTwice(s, page) ==
  s \o <<[page |-> page, shapes |-> <<>>], [page |-> page, shapes |-> <<>>]>>
\* Line 35: prs.slides.add_slide(blank_slide_layout); page is the page being
\* processed when the slide is created.
AddSlide(s, page) == Append(s, [page |-> page, shapes |-> <<>>])

\* slide.shapes.add_*: slide is the last slide of the presentation.
AddShape(s, shape) ==
  [s EXCEPT ![Len(s)].shapes = Append(s[Len(s)].shapes, shape)]

Last(s) == s[Len(s)]

\* ---------------------------------------------------------- inputs
SeqsUpTo(S, n) == UNION {[1..k -> S] : k \in 0..n}

Span(text, size) == [text |-> text, size |-> size]
TextBlockOf(bbox, lines) == [type |-> 0, bbox |-> bbox, lines |-> lines]
ImageBlockOf(bbox, ext) == [type |-> 1, bbox |-> bbox, ext |-> ext]
OtherBlockOf(bbox) == [type |-> 2, bbox |-> bbox]

\* Text blocks: one line of one span; two lines, the first of two spans; no
\* line at all; a first line with no span.
T1 == TextBlockOf(<<800, 600, 4000, 760>>, <<[spans |-> <<Span(<<"a">>, 96)>>]>>)
T2 == TextBlockOf(<<801, 1001, 3206, 1304>>,
                  <<[spans |-> <<Span(<<"a">>, 81), Span(<<SP, "b">>, 96)>>],
                    [spans |-> <<Span(<<"b">>, 64)>>]>>)
T0 == TextBlockOf(<<0, 0, 80, 80>>, <<>>)
TE == TextBlockOf(<<16, 24, 96, 104>>,
                  <<[spans |-> <<>>], [spans |-> <<Span(<<"a">>, 96)>>]>>)
\* Image blocks: I1 and I2 share int(x0), int(y0) and the extension, and so
\* the temporary file's name.
I1 == ImageBlockOf(<<81, 18, 161, 99>>, "png")
I2 == ImageBlockOf(<<85, 19, 1205, 1020>>, "png")
X2 == OtherBlockOf(<<0, 0, 8, 8>>)

RectA == [width |-> 4896, height |-> 6336]
RectB == [width |-> 4763, height |-> 6735]
PixA == [width |-> 1224, height |-> 1584]

PageOf(rect, pix, blocks) == [rect |-> rect, pix |-> pix, blocks |-> blocks]

\* The pages of the documents converted in reconstruction mode.
EditablePages ==
  { PageOf(RectA, PixA, <<T1>>),
    PageOf(RectB, PixA, <<I1, T1>>),
    PageOf(RectA, PixA, <<I1, X2, I2>>),
    PageOf(RectB, PixA, <<T0, T2>>),
    PageOf(RectA, PixA, <<TE, X2>>),
    PageOf(RectB, PixA, <<>>) }

\* The pages of the documents converted in raster mode: get_text is never
\* called there, the pages differ by their rendering.
RasterPages ==
  { PageOf(RectA, PixA, <<>>),
    PageOf(RectA, [width |-> 1584, height |-> 1224], <<>>),
    PageOf(RectA, [width |-> 32, height |-> 18], <<>>),
    PageOf(RectA, [width |-> 13, height |-> 12], <<>>) }

DefaultCanvas == [width |-> DefaultSlideWidth, height |-> DefaultSlideHeight]
Canvases == {DefaultCanvas, [width |-> 12192000, height |-> DefaultSlideHeight]}

\* One-page documents over every pixel size up to MaxPix x MaxPix.
FitDocs ==
  {<<PageOf(RectA, [width |-> w, height |-> h], <<>>)>> :
     w \in 1..MaxPix, h \in 1..MaxPix}

\* One-page documents of one text block, over every shape of block up to
\* MaxLines lines of up to MaxSpans spans.
SpanTexts == {Span(<<"a">>, 96), Span(<<SP, "b">>, 81)}
TextLines == {[spans |-> s] : s \in SeqsUpTo(SpanTexts, MaxSpans)}
TextDocs ==
  {<<PageOf(RectA, PixA, <<TextBlockOf(<<800, 600, 4000, 760>>, ls)>>)>> :
     ls \in SeqsUpTo(TextLines, MaxLines)}

\* ----------------------------------------------------------- state
VARIABLES
  editable,      \* the editable argument
  doc,           \* the pages fitz.open returns for pdf_path, if it does
  template,      \* the slide size of the default template
  outFile0,      \* what is at pptx_path before the run
  pc,            \* where the run is
  out,           \* what was printed
  prs_w, prs_h,  \* prs.slide_width, prs.slide_height
  slides,        \* prs.slides
  i,             \* the page index
  slide_width, slide_height,   \* the locals of lines 38-39
  blocks, bi,    \* the page's blocks and the block being processed
  files,         \* the temporary files in the working directory
  outFile,       \* what is at pptx_path
  saveCalled,    \* prs.save was called
  faults         \* the calls that raised: <<call, page, block>>

vars == <<editable, doc, template, outFile0, pc, out, prs_w, prs_h, slides, i,
          slide_width, slide_height, blocks, bi, files, outFile, saveCalled,
          faults>>

inputs == <<editable, doc, template, outFile0>>

InitRun ==
  /\ pc = "start"
  /\ out = <<>>
  /\ prs_w = 0 /\ prs_h = 0
  /\ slides = <<>>
  /\ i = 0
  /\ slide_width = 0 /\ slide_height = 0
  /\ blocks = <<>> /\ bi = 0
  /\ files = {}
  /\ outFile = outFile0
  /\ saveCalled = FALSE
  /\ faults = {}

Init ==
  /\ editable \in BOOLEAN
  /\ doc \in SeqsUpTo(IF editable THEN EditablePages ELSE RasterPages, MaxPages)
  /\ template = DefaultCanvas
  /\ outFile0 \in {"absent", "old"}
  /\ InitRun

InitFit ==
  /\ editable = FALSE
  /\ doc \in FitDocs
  /\ template \in Canvases
  /\ outFile0 = "absent"
  /\ InitRun

InitText ==
  /\ editable = TRUE
  /\ doc \in TextDocs
  /\ template = DefaultCanvas
  /\ outFile0 = "absent"
  /\ InitRun

Raise(call) ==
  /\ pc' = "raised"
  /\ faults' = faults \cup {<<call, i, bi>>}

\* ---------------------------------------------------------- actions
\* Lines 14-18.
CheckExists ==
  /\ pc = "start"
  /\ \E exists \in BOOLEAN :
       IF exists
       THEN /\ out' = Append(out, "Converting")
            /\ pc' = "open"
            /\ faults' = faults
       ELSE /\ out' = Append(out, "Error: PDF file not found")
            /\ pc' = "returned"
            /\ faults' = faults \cup {<<"exists", 0, 0>>}
  /\ UNCHANGED <<inputs, prs_w, prs_h, slides, i, slide_width, slide_height,
                 blocks, bi, files, outFile, saveCalled>>

OpenDocNoReturn ==
  /\ pc = "open"
  /\ \E ok \in BOOLEAN :
       /\ out' = IF ok THEN out ELSE Append(out, "Error opening PDF")
       /\ faults' = IF ok THEN faults ELSE faults \cup {<<"open", 0, 0>>}
  /\ pc' = "loop"
  /\ prs_w' = template.width /\ prs_h' = template.height
  /\ slides' = <<>> /\ i' = 0
  /\ UNCHANGED <<inputs, slide_width, slide_height, blocks, bi, files,
                 outFile, saveCalled>>
\* Lines 20-29: fitz.open, then Presentation().
OpenDoc ==
  /\ pc = "open"
  /\ \E ok \in BOOLEAN :
       IF ok
       THEN /\ pc' = "loop"
            /\ prs_w' = template.width /\ prs_h' = template.height
            /\ slides' = <<>> /\ i' = 0
            /\ UNCHANGED <<out, faults>>
       ELSE /\ out' = Append(out, "Error opening PDF")
            /\ pc' = "returned"
            /\ faults' = faults \cup {<<"open", 0, 0>>}
            /\ UNCHANGED <<prs_w, prs_h, slides, i>>
  /\ UNCHANGED <<inputs, slide_width, slide_height, blocks, bi, files,
                 outFile, saveCalled>>

\* Lines 31-39: the loop's test, load_page, add_slide, the slide's size.
NextPage ==
  /\ pc = "loop"
  /\ IF i < Len(doc)
     THEN /\ out' = Append(out, "Processing page")
          /\ \E ok \in BOOLEAN :
               IF ok
               THEN /\ slides' = AddSlide(slides, i)
                    /\ slide_width' = prs_w /\ slide_height' = prs_h
                    /\ pc' = IF editable THEN "extract" ELSE "render"
                    /\ faults' = faults
               ELSE /\ Raise("load_page")
                    /\ UNCHANGED <<slides, slide_width, slide_height>>
     ELSE /\ pc' = "save"
          /\ UNCHANGED <<out, slides, slide_width, slide_height, faults>>
  /\ UNCHANGED <<inputs, prs_w, prs_h, i, blocks, bi, files, outFile,
                 saveCalled>>

ExtractBlocksResizeOnce ==
  /\ pc = "extract"
  /\ \E ok \in BOOLEAN :
       IF ok
       THEN /\ blocks' = doc[i + 1].blocks
            /\ prs_w' = IF i = 0 THEN Pt(doc[i + 1].rect.width) ELSE prs_w
            /\ prs_h' = IF i = 0 THEN Pt(doc[i + 1].rect.height) ELSE prs_h
            /\ bi' = 1
            /\ pc' = "block"
            /\ faults' = faults
       ELSE /\ Raise("get_text")
            /\ UNCHANGED <<blocks, prs_w, prs_h, bi>>
  /\ UNCHANGED <<inputs, out, slides, i, slide_width, slide_height, files,
                 outFile, saveCalled>>
\* Lines 43-58: the page's blocks, and the presentation resized to the page.
ExtractBlocks ==
  /\ pc = "extract"
  /\ \E ok \in BOOLEAN :
       IF ok
       THEN /\ blocks' = doc[i + 1].blocks
            /\ prs_w' = Pt(doc[i + 1].rect.width)
            /\ prs_h' = Pt(doc[i + 1].rect.height)
            /\ bi' = 1
            /\ pc' = "block"
            /\ faults' = faults
       ELSE /\ Raise("get_text")
            /\ UNCHANGED <<blocks, prs_w, prs_h, bi>>
  /\ UNCHANGED <<inputs, out, slides, i, slide_width, slide_height, files,
                 outFile, saveCalled>>

\* Lines 60, 66-87: a text block.
TextBlock ==
  /\ pc = "block" /\ bi <= Len(blocks)
  /\ blocks[bi].type = 0
  /\ slides' = AddShape(slides, TextBox(blocks[bi], bi))
  /\ bi' = bi + 1
  /\ UNCHANGED <<inputs, pc, out, prs_w, prs_h, i, slide_width, slide_height,
                 blocks, files, outFile, saveCalled, faults>>

\* Lines 100-101: the warning, and the loop goes on with the next block.
Warn(call) ==
  /\ out' = Append(out, "Warning: Failed to add image element")
  /\ faults' = faults \cup {<<call, i, bi>>}
  /\ bi' = bi + 1
  /\ pc' = "block"

\* Lines 60, 89-96: an image block; its bytes are written to the temporary
\* file.  open may raise (no file), and write may raise (the file is there).
ImageWrite ==
  /\ pc = "block" /\ bi <= Len(blocks)
  /\ blocks[bi].type = 1
  /\ \E r \in {"ok", "open raises", "write raises"} :
       /\ files' = IF r = "open raises" THEN files
                   ELSE WriteFile(files, TempImgName(i, blocks[bi]), <<i, bi>>)
       /\ IF r = "ok"
          THEN pc' = "img_insert" /\ UNCHANGED <<out, faults, bi>>
          ELSE Warn("img_write")
  /\ UNCHANGED <<inputs, prs_w, prs_h, slides, i, slide_width, slide_height,
                 blocks, outFile, saveCalled>>

ImageInsertRaises ==
  /\ pc = "img_insert"
  /\ \E ok \in BOOLEAN :
       IF ok
       THEN /\ slides' = AddShape(slides,
                           Picture(blocks[bi], bi,
                                   FileBy(files, TempImgName(i, blocks[bi]))))
            /\ pc' = "img_remove"
            /\ UNCHANGED <<out, faults, bi>>
       ELSE /\ Raise("img_insert")
            /\ UNCHANGED <<slides, out, bi>>
  /\ UNCHANGED <<inputs, prs_w, prs_h, i, slide_width, slide_height, blocks,
                 files, outFile, saveCalled>>
\* Line 98: add_picture reads the temporary file.
ImageInsert ==
  /\ pc = "img_insert"
  /\ \E ok \in BOOLEAN :
       IF ok
       THEN /\ slides' = AddShape(slides,
                           Picture(blocks[bi], bi,
                                   FileBy(files, TempImgName(i, blocks[bi]))))
            /\ pc' = "img_remove"
            /\ UNCHANGED <<out, faults, bi>>
       ELSE /\ Warn("img_insert")
            /\ UNCHANGED slides
  /\ UNCHANGED <<inputs, prs_w, prs_h, i, slide_width, slide_height, blocks,
                 files, outFile, saveCalled>>

\* Line 99: os.remove.
ImageRemove ==
  /\ pc = "img_remove"
  /\ \E ok \in BOOLEAN :
       IF ok
       THEN /\ files' = RemoveFile(files, TempImgName(i, blocks[bi]))
            /\ bi' = bi + 1
            /\ pc' = "block"
            /\ UNCHANGED <<out, faults>>
       ELSE /\ Warn("img_remove")
            /\ UNCHANGED files
  /\ UNCHANGED <<inputs, prs_w, prs_h, slides, i, slide_width, slide_height,
                 blocks, outFile, saveCalled>>

\* Lines 60, 66, 89: a block that is neither text nor image.
OtherBlock ==
  /\ pc = "block" /\ bi <= Len(blocks)
  /\ blocks[bi].type \notin {0, 1}
  /\ bi' = bi + 1
  /\ UNCHANGED <<inputs, pc, out, prs_w, prs_h, slides, i, slide_width,
                 slide_height, blocks, files, outFile, saveCalled, faults>>

\* Line 60: no block is left; line 31: the next page.
EndBlocks ==
  /\ pc = "block" /\ bi > Len(blocks)
  /\ i' = i + 1
  /\ pc' = "loop"
  /\ UNCHANGED <<inputs, out, prs_w, prs_h, slides, slide_width, slide_height,
                 blocks, bi, files, outFile, saveCalled, faults>>

\* Lines 106-108: page.get_pixmap.
Render ==
  /\ pc = "render"
  /\ \E ok \in BOOLEAN :
       IF ok THEN pc' = "save_pixmap" /\ faults' = faults
       ELSE Raise("get_pixmap")
  /\ UNCHANGED <<inputs, out, prs_w, prs_h, slides, i, slide_width,
                 slide_height, blocks, bi, files, outFile, saveCalled>>

\* Lines 111-112: pix.save; when it raises the file may have been created.
SavePixmap ==
  /\ pc = "save_pixmap"
  /\ \E r \in {"ok", "raises, no file", "raises, file"} :
       /\ files' = IF r = "raises, no file" THEN files
                   ELSE WriteFile(files, TempPageName(i), <<i, 0>>)
       /\ IF r = "ok" THEN pc' = "place" /\ faults' = faults
          ELSE Raise("pix_save")
  /\ UNCHANGED <<inputs, out, prs_w, prs_h, slides, i, slide_width,
                 slide_height, blocks, bi, outFile, saveCalled>>

\* Lines 115-133: the fit, and add_picture.
PlacePicture ==
  /\ pc = "place"
  /\ \E ok \in BOOLEAN :
       IF ok
       THEN /\ slides' = AddShape(slides,
                           PagePicture(doc[i + 1].pix, slide_width,
                                       slide_height,
                                       FileBy(files, TempPageName(i))))
            /\ pc' = "cleanup"
            /\ faults' = faults
       ELSE /\ Raise("add_picture")
            /\ UNCHANGED slides
  /\ UNCHANGED <<inputs, out, prs_w, prs_h, i, slide_width, slide_height,
                 blocks, bi, files, outFile, saveCalled>>

\* Line 136: os.remove; line 31: the next page.
Cleanup ==
  /\ pc = "cleanup"
  /\ \E ok \in BOOLEAN :
       IF ok
       THEN /\ files' = RemoveFile(files, TempPageName(i))
            /\ i' = i + 1
            /\ pc' = "loop"
            /\ faults' = faults
       ELSE /\ Raise("remove")
            /\ UNCHANGED <<files, i>>
  /\ UNCHANGED <<inputs, out, prs_w, prs_h, slides, slide_width, slide_height,
                 blocks, bi, outFile, saveCalled>>

\* Lines 138-142: prs.save; when it raises, what it wrote so far may be at
\* pptx_path.
SavePrs ==
  /\ pc = "save"
  /\ saveCalled' = TRUE
  /\ \E r \in {"ok", "raises, nothing written", "raises, partly written"} :
       /\ outFile' = IF r = "ok" THEN "saved"
                     ELSE IF r = "raises, partly written" THEN "partial"
                     ELSE outFile
       /\ out' = Append(out, IF r = "ok" THEN "Successfully saved PPTX"
                             ELSE "Error saving PPTX file")
       /\ faults' = IF r = "ok" THEN faults ELSE faults \cup {<<"save", 0, 0>>}
  /\ pc' = "returned"
  /\ UNCHANGED <<inputs, prs_w, prs_h, slides, i, slide_width, slide_height,
                 blocks, bi, files>>

Next ==
  \/ CheckExists \/ OpenDoc \/ NextPage
  \/ ExtractBlocks \/ TextBlock \/ ImageWrite \/ ImageInsert \/ ImageRemove
  \/ OtherBlock \/ EndBlocks
  \/ Render \/ SavePixmap \/ PlacePicture \/ Cleanup
  \/ SavePrs

Spec == Init /\ [][Next]_vars

\* Raster mode alone, over the pixel sizes and the canvases.
NextFit ==
  \/ CheckExists \/ OpenDoc \/ NextPage
  \/ Render \/ SavePixmap \/ PlacePicture \/ Cleanup
  \/ SavePrs

SpecFit == InitFit /\ [][NextFit]_vars

\* Reconstruction mode alone, over the text blocks.
NextText ==
  \/ CheckExists \/ OpenDoc \/ NextPage
  \/ ExtractBlocks \/ TextBlock \/ EndBlocks
  \/ SavePrs

SpecText == InitText /\ [][NextText]_vars

\* ------------------------------------------------------ properties
\* The slide of page i exists and the page is being processed.
InPage ==
  pc \in {"extract", "block", "img_insert", "img_remove",
          "render", "save_pixmap", "place", "cleanup"}

ImageCalls == {"img_write", "img_insert", "img_remove"}
Fatal == {f \in faults : f[1] \notin ImageCalls}
ErrorMessages ==
  {"Error: PDF file not found", "Error opening PDF", "Error saving PPTX file"}

\* The blocks of page p (0-based) whose processing is over.
Processed(p) ==
  IF p < i THEN Len(doc[p + 1].blocks)
  ELSE IF pc \in {"block", "img_insert"} THEN bi - 1
  ELSE IF pc = "img_remove" THEN bi
  ELSE 0

Scaled(x) == (x * 12700) \div PtDen

IsTextBox(s) == s.kind = "textbox"

\* C1: one slide per page, in source order: slide k is created while page k
\* is processed, the presentation holds i + 1 slides once page i (0-based) is
\* being processed and i when it is about to be, every page's slide is there
\* when the pages are done, and in raster mode the slide of every processed
\* page holds one picture and nothing else.
C1_CountInv ==
  /\ pc = "loop" => Len(slides) = i
  /\ InPage => Len(slides) = i + 1
  /\ (pc = "save" \/ saveCalled) => Len(slides) = Len(doc)
  /\ \A k \in 1..Len(slides) : slides[k].page = k - 1
  /\ ~editable =>
       \A k \in 1..Len(slides) :
         (k <= i \/ pc = "cleanup") =>
           /\ Len(slides[k].shapes) = 1
           /\ slides[k].shapes[1].kind = "picture"
           /\ slides[k].shapes[1].image = <<k - 1, 0>>

\* C1: ... and the slide count never decreases.
C1_SlidePerPage ==
  [](C1_CountInv) /\ [][Len(slides') >= Len(slides)]_vars

C1_Witness ==
  /\ ~editable /\ pc = "returned" /\ outFile = "saved"
  /\ Len(doc) = MaxPages /\ Len(slides) = MaxPages

C3_SlideSizeOfLastPage ==
  editable =>
    /\ pc \in {"block", "img_insert", "img_remove"} =>
         /\ prs_w = Scaled(doc[i + 1].rect.width)
         /\ prs_h = Scaled(doc[i + 1].rect.height)
    /\ ((pc \in {"loop", "extract", "save"} \/ saveCalled) /\ i >= 1) =>
         /\ prs_w = Scaled(doc[i].rect.width)
         /\ prs_h = Scaled(doc[i].rect.height)
    /\ saveCalled => i = Len(doc)

\* Two pages of different sizes: the first page's size is lost.
C3_Witness ==
  /\ editable /\ pc = "returned" /\ outFile = "saved"
  /\ Len(doc) = 2 /\ doc[1].rect # doc[2].rect
  /\ prs_w = Scaled(doc[2].rect.width) /\ prs_w # Scaled(doc[1].rect.width)
  /\ prs_h = Scaled(doc[2].rect.height)

\* The spans joined by one space.
RECURSIVE JoinSpans(_)
JoinSpans(spans) ==
  IF spans = <<>> THEN <<>>
  ELSE IF Len(spans) = 1 THEN spans[1].text
  ELSE spans[1].text \o <<SP>> \o JoinSpans(Tail(spans))

\* The lines joined by a newline.
RECURSIVE JoinLines(_)
JoinLines(lines) ==
  IF lines = <<>> THEN <<>>
  ELSE IF Len(lines) = 1 THEN JoinSpans(lines[1].spans)
  ELSE JoinSpans(lines[1].spans) \o <<NL>> \o JoinLines(Tail(lines))

\* C4, as claimed: a text box's text is the block's spans joined by single
\* spaces within each line and the lines joined by a newline, the whole
\* stripped of leading and trailing whitespace.
C4_JoinedText ==
  \A k \in 1..Len(slides) :
    \A s \in 1..Len(slides[k].shapes) :
      LET shape == slides[k].shapes[s] IN
      shape.kind = "textbox" =>
        shape.text = Strip(JoinLines(doc[k].blocks[shape.block].lines))

\* A block of several lines has its text box.
C4_Witness ==
  /\ pc = "returned" /\ outFile = "saved"
  /\ \E k \in 1..Len(slides) :
       \E s \in 1..Len(slides[k].shapes) :
         /\ slides[k].shapes[s].kind = "textbox"
         /\ Len(doc[k].blocks[slides[k].shapes[s].block].lines) >= 2

\* The image block b of page p was processed and nothing raised.
ImageDone(p, b) ==
  /\ doc[p + 1].blocks[b].type = 1
  /\ b <= Processed(p)
  /\ ~(pc = "img_remove" /\ i = p /\ bi = b)
  /\ \A c \in ImageCalls : <<c, p, b>> \notin faults

\* C5: in reconstruction mode every picture is at (x0, y0) of its block's
\* bounding box with size (x1 - x0, y1 - y0), each at 12700 per point; every
\* image block processed with nothing raised has its picture, one, and the
\* temporary file written for it is no longer there.
C5_PictureBoxAndCleanup ==
  editable =>
    \A k \in 1..Len(slides) :
      /\ \A s \in 1..Len(slides[k].shapes) :
           LET shape == slides[k].shapes[s]
               bbox == doc[k].blocks[shape.block].bbox
           IN  shape.kind = "picture" =>
                 /\ doc[k].blocks[shape.block].type = 1
                 /\ shape.left = Scaled(bbox[1])
                 /\ shape.top = Scaled(bbox[2])
                 /\ shape.width = Scaled(bbox[3] - bbox[1])
                 /\ shape.height = Scaled(bbox[4] - bbox[2])
                 /\ shape.image = <<k - 1, shape.block>>
      /\ \A b \in 1..Len(doc[k].blocks) :
           ImageDone(k - 1, b) =>
             /\ Cardinality({s \in 1..Len(slides[k].shapes) :
                   /\ slides[k].shapes[s].kind = "picture"
                   /\ slides[k].shapes[s].block = b}) = 1
             /\ \A f \in files : f.by # <<k - 1, b>>

\* The run is over, an image block went through, and so did a second one
\* whose temporary file had the same name.
C5_Witness ==
  /\ editable /\ pc = "returned" /\ outFile = "saved"
  /\ \E k \in 1..Len(slides) :
       \E b1, b2 \in 1..Len(doc[k].blocks) :
         /\ b1 < b2
         /\ ImageDone(k - 1, b1) /\ ImageDone(k - 1, b2)
         /\ TempImgName(k - 1, doc[k].blocks[b1])
              = TempImgName(k - 1, doc[k].blocks[b2])

\* The stages the claim names: the source is missing, it does not open, a
\* page is not rendered, its blocks are not extracted, the save fails.
StageCalls == {"exists", "open", "get_pixmap", "get_text", "save"}

\* C6, as claimed: when one of these stages fails, a message saying so is
\* printed and the function returns; it is not left by raising.
C6_NeverRaises ==
  (\E f \in faults : f[1] \in StageCalls) =>
    (pc = "returned" /\ out # <<>> /\ Last(out) \in ErrorMessages)

\* C7: when the path does not exist or the document does not open, the
\* error is printed and the run is over: no slide was created, save was not
\* called, and what was at the output path is still there.
C7_NoOutputOnInputError ==
  (<<"exists", 0, 0>> \in faults \/ <<"open", 0, 0>> \in faults) =>
    /\ pc = "returned"
    /\ out # <<>>
    /\ Last(out) = IF <<"open", 0, 0>> \in faults THEN "Error opening PDF"
                   ELSE "Error: PDF file not found"
    /\ slides = <<>>
    /\ ~saveCalled
    /\ outFile = outFile0

C7_Witness ==
  /\ <<"open", 0, 0>> \in faults /\ outFile0 = "old" /\ Len(doc) > 0

\* The image blocks of page p dropped: the write or the insert raised.
Dropped(p) ==
  {b \in 1..Len(doc[p + 1].blocks) :
     <<"img_write", p, b>> \in faults \/ <<"img_insert", p, b>> \in faults}

\* Among the first n blocks, those that leave an element: the text blocks
\* and the image blocks not dropped.
RECURSIVE Kept(_, _, _)
Kept(bs, p, n) ==
  IF n = 0 THEN <<>>
  ELSE IF bs[n].type = 0 \/ (bs[n].type = 1 /\ n \notin Dropped(p))
  THEN Append(Kept(bs, p, n - 1), n)
  ELSE Kept(bs, p, n - 1)

Warnings ==
  Cardinality({k \in 1..Len(out) :
                 out[k] = "Warning: Failed to add image element"})

\* C8: in reconstruction mode an image block whose write or insert raises
\* is dropped and nothing else is: a warning is printed for it, the run is
\* not left by raising, each slide holds, in order, the elements of its
\* page's other text and image blocks processed so far (no element for a
\* block of another type), and a run in which only image blocks failed
\* processes every page and saves.
C8_OnlyTheFailedImageIsDropped ==
  editable =>
    /\ \A k \in 1..Len(slides) :
         LET kept == Kept(doc[k].blocks, k - 1, Processed(k - 1)) IN
         /\ Len(slides[k].shapes) = Len(kept)
         /\ \A s \in 1..Len(kept) :
              /\ slides[k].shapes[s].block = kept[s]
              /\ slides[k].shapes[s].kind =
                   IF doc[k].blocks[kept[s]].type = 0 THEN "textbox"
                   ELSE "picture"
    /\ Warnings = Cardinality({f \in faults : f[1] \in ImageCalls})
    /\ pc = "raised" => Fatal # {}
    /\ (pc = "returned" /\ Fatal = {}) =>
         /\ i = Len(doc) /\ Len(slides) = Len(doc)
         /\ saveCalled /\ outFile = "saved"

\* An insert raised on the first block of the first page; the rest of the
\* page, the next page and the save went through.
C8_Witness ==
  /\ editable /\ pc = "returned" /\ outFile = "saved"
  /\ <<"img_insert", 0, 1>> \in faults
  /\ Len(doc) = 2
  /\ slides[1].shapes # <<>> /\ slides[2].shapes # <<>>

\* C9, as claimed, for the files written whole (no write raised): a
\* temporary file is written, used and removed within the processing of its
\* block or page, also when the insert raises, so that at most one exists at
\* any moment, none between two blocks or pages, and none when the run is
\* over.
C9_TempFilesShortLived ==
  (\A f \in faults : f[1] \notin {"img_write", "pix_save"}) =>
    /\ Cardinality(files) <= 1
    /\ pc \in {"start", "open", "loop", "extract", "block", "render", "save",
               "returned", "raised"} => files = {}

RECURSIVE TextIdx(_, _)
TextIdx(bs, n) ==
  IF n = 0 THEN <<>>
  ELSE IF bs[n].type = 0 THEN Append(TextIdx(bs, n - 1), n)
  ELSE TextIdx(bs, n - 1)

NoFirstSpan(block) == block.lines = <<>> \/ block.lines[1].spans = <<>>

\* C10: in reconstruction mode every text block processed has one text box,
\* at its bounding box; where the block has no line, or its first line no
\* span, the text box is there all the same with no font size set, or else
\* its first paragraph has the first span's size and no other paragraph has
\* one; nothing of this leaves the run by raising.
C10_TextBoxPerTextBlock ==
  editable =>
    /\ \A k \in 1..Len(slides) :
         LET boxes == SelectSeq(slides[k].shapes, IsTextBox)
             idx == TextIdx(doc[k].blocks, Processed(k - 1))
         IN  /\ Len(boxes) = Len(idx)
             /\ \A s \in 1..Len(idx) :
                  LET block == doc[k].blocks[idx[s]]
                      box == boxes[s]
                  IN  /\ box.block = idx[s]
                      /\ box.left = Scaled(block.bbox[1])
                      /\ box.top = Scaled(block.bbox[2])
                      /\ box.width = Scaled(block.bbox[3] - block.bbox[1])
                      /\ box.height = Scaled(block.bbox[4] - block.bbox[2])
                      /\ Len(box.fonts) >= 1
                      /\ box.fonts[1] =
                           IF NoFirstSpan(block) THEN {}
                           ELSE {Scaled(block.lines[1].spans[1].size)}
                      /\ \A q \in 2..Len(box.fonts) : box.fonts[q] = {}
    /\ pc = "raised" =>
         \E f \in faults : f[1] \in {"load_page", "get_text"}

\* A block with no line, then a block of two paragraphs, and the run saved.
C10_Witness ==
  /\ editable /\ pc = "returned" /\ outFile = "saved"
  /\ \E k \in 1..Len(slides) :
       /\ Len(slides[k].shapes) = 2
       /\ doc[k].blocks[1].lines = <<>>
       /\ slides[k].shapes[1].kind = "textbox"
       /\ slides[k].shapes[1].fonts = <<{}>>
       /\ slides[k].shapes[2].kind = "textbox"
       /\ Len(slides[k].shapes[2].fonts) = 2
       /\ slides[k].shapes[2].fonts[1] # {}

====
